---- MODULE Spec2Model ----
(***************************************************************************)
(* Model of Backend/ratemyprofessor.py: the sequential pipeline            *)
(*   test_supabase_connection -> scrape_professor_links ->                 *)
(*   for each professor: fetch_rating_distributions -> select/update/insert*)
(* followed by driver.quit().  The remote site (cards of the result page,  *)
(* content of each profile page) and the remote table are the environment. *)
(***************************************************************************)
EXTENDS Integers, Sequences, FiniteSets, TLC

\* ------------------------------------------------------------------------
\* Bounds of the model
MaxProfs == 2      \* longest list of professor cards on the result page
MaxPages == 2      \* most "Show More" pages the site has left to load
MaxBlocked == 3    \* the streak of intercepted clicks is counted up to here
MaxRuns == 2       \* how many times the script is executed in a row
MaxTop == 2        \* most top-level entries of an embedded JSON object

\* Program constants
Stars == 5                                   \* r1 .. r5
Origin == "https://www.ratemyprofessors.com" \* prefix of full_link
Unknown == "Unknown"                         \* name when the card has none
Tag == "ratingsDistribution"                 \* the __typename looked for

\* ------------------------------------------------------------------------
\* Values of the embedded JSON.  A top-level value is a dict or something
\* else; a dict has an optional __typename ("" when the key is missing) and
\* a set of <<k, count>> pairs, one for each key r<k> it has.
CountAt(k) == 10 + k   \* the count the model's objects hold under r<k>
Fields(K) == {<<k, CountAt(k)>> : k \in K}
Dict(t, K) == [isdict |-> TRUE, typename |-> t, fields |-> Fields(K)]
Scalar == [isdict |-> FALSE, typename |-> "", fields |-> {}]
NoneValue == [isdict |-> FALSE, typename |-> "None", fields |-> {}]

\* dict.get(key, default)
Get(d, k, default) ==
    IF \E p \in d.fields : p[1] = k
    THEN (CHOOSE p \in d.fields : p[1] = k)[2]
    ELSE default

\* the loop over data.items(): the first dict tagged ratingsDistribution
\* (variant: without the break the last tagged dict is the one kept)
RECURSIVE ScanLast(_, _)
ScanLast(data, i) ==
    IF i < 1 THEN NoneValue
    ELSE IF data[i].isdict /\ data[i].typename = Tag THEN data[i]
    ELSE ScanLast(data, i - 1)

ScanItemsLast(data) == ScanLast(data, Len(data))

RECURSIVE ScanFrom(_, _)
ScanFrom(data, i) ==
    IF i > Len(data) THEN NoneValue
    ELSE IF data[i].isdict /\ data[i].typename = Tag THEN data[i]
    ELSE ScanFrom(data, i + 1)

ScanItems(data) == ScanFrom(data, 1)

\* A profile page: is there a script with the marker, does the assignment
\* pattern match in it, is the matched text valid JSON, and the top-level
\* values of the parsed object in document order.
Page(m, a, v, d) == [marker |-> m, assign |-> a, valid |-> v, data |-> d]

Return(v) == [raised |-> "", value |-> v]
Raise(e) == [raised |-> e, value |-> NoneValue]

fetch_rating_distributions(page) ==
    IF ~page.marker THEN Return(NoneValue)
    ELSE IF ~page.assign THEN Raise("AttributeError")
    ELSE IF ~page.valid THEN Raise("JSONDecodeError")
    ELSE Return(ScanItems(page.data))

\* "if rating_distributions:"  None is false, and a dict that came out of
\* the scan has the key __typename, so it is not empty
\* (variant: the test is left out)
TruthyAlways(v) == TRUE

Truthy(v) == v # NoneValue /\ (v.isdict => v.typename # "" \/ v.fields # {})

\* the dict built at lines 134-142
BuildProfessorData(professor, rd) ==
    [name |-> professor.name,
     rmp_link |-> professor.rmp_link,
     counts |-> [k \in 1..Stars |-> Get(rd, k, 0)]]

\* the card loop at lines 74-82
ParseCards(cs) ==
    [i \in 1..Len(cs) |->
        [name |-> IF cs[i].hasName THEN cs[i].name ELSE Unknown,
         rmp_link |-> <<Origin, cs[i].href>>]]

\* ------------------------------------------------------------------------
\* The remote site and the remote table
Hrefs == {"/professor/1", "/professor/2"}
CardNames == {"a"}
Cards == [hasName : {TRUE}, name : CardNames, href : Hrefs]
           \cup [hasName : {FALSE}, name : {""}, href : Hrefs]
CardLists == UNION {[1..n -> Cards] : n \in 0..MaxProfs}

D1 == Dict(Tag, 1..Stars)
D2 == Dict(Tag, {2, 5})
Other == Dict("Teacher", {1})
PAbsent == Page(FALSE, FALSE, FALSE, <<>>)
PNoMatch == Page(TRUE, FALSE, FALSE, <<>>)
PBadJson == Page(TRUE, TRUE, FALSE, <<>>)
Pages == {PAbsent, PNoMatch, PBadJson,
          Page(TRUE, TRUE, TRUE, <<Other, Scalar>>),
          Page(TRUE, TRUE, TRUE, <<Scalar, D1, D2>>),
          Page(TRUE, TRUE, TRUE, <<D2, D1>>)}

OldRow == [name |-> "a", rmp_link |-> <<Origin, "/professor/1">>,
           counts |-> [k \in 1..Stars |-> 0]]
StoreInits == {<<>>, <<OldRow>>}

NoData == [name |-> "", rmp_link |-> <<>>, counts |-> [k \in 1..Stars |-> 0]]
NotFound == [found |-> FALSE, counts |-> [k \in 1..Stars |-> 0]]
NoCalls == [probe |-> 0, scrape |-> 0, fetch |-> 0,
            select |-> 0, update |-> 0, insert |-> 0,
            probeErrors |-> 0, storeErrors |-> 0]
Bump(c, k) == [c EXCEPT ![k] = @ + 1]

\* .select("*").eq('name', name)
\* (variant: the filter is on rmp_link)
SelectRowsByLink(rows, professor) ==
    SelectSeq(rows, LAMBDA r : r.rmp_link = professor.rmp_link)

SelectRows(rows, professor) ==
    SelectSeq(rows, LAMBDA r : r.name = professor.name)

\* .update(professor_data).eq('name', name)
\* (variant: the update leaves rmp_link as it was)
UpdateRowsKeepLink(rows, data) ==
    [i \in 1..Len(rows) |->
        IF rows[i].name = data.name
        THEN [data EXCEPT !.rmp_link = rows[i].rmp_link]
        ELSE rows[i]]

UpdateRows(rows, data) ==
    [i \in 1..Len(rows) |-> IF rows[i].name = data.name THEN data ELSE rows[i]]

\* .insert(professor_data)
InsertRow(rows, data) == Append(rows, data)

\* "if existing.data:" chooses the write
\* (variant: the existence check is ignored)
AlwaysInsert(rows) == "insert"

ChooseWrite(rows) == IF rows # <<>> THEN "update" ELSE "insert"

\* "if not test_supabase_connection(): return"
\* (variant: main goes on after a failed probe)
ProbeGateIgnored(ok) == "scrape"

ProbeGate(ok) == IF ok THEN "scrape" ELSE "returned"

\* "except Exception as e: print(...)" around the three store calls
\* (variant: no except clause, the exception leaves main)
StoreErrorEscapes == "crashed"

StoreErrorPc == "loop"

\* "except NoSuchElementException: ... break"
\* (variant: no break)
NoBreak == "show_more"

AfterNoSuchElement == "parse"

VARIABLES
    cards,           \* the professor cards of the fully loaded result page
    web,             \* the profile page behind each href
    store,           \* the rows of the table 'professors'
    pc,              \* where the process is
    run,             \* which execution of the script this is
    pagesLeft,       \* result pages the "Show More" button can still load
    blocked,         \* intercepted clicks in a row on the present button
    professors_data, \* the list scrape_professor_links returned
    idx,             \* position of the for loop of main
    professor_data,  \* the dict built for the professor at idx
    existing,        \* existing.data of the select of this iteration
    calls,           \* calls issued in this run, by kind
    raised,          \* the exception that ended the process, "" if none
    driverQuit,      \* driver.quit() was called in this run
    lastOk,          \* per name, the list position whose write went through last
    faults,          \* a store call has failed, in this run or an earlier one
    scraped,         \* the runs in which scrape_professor_links returned
    prevStore,       \* the table as the previous run left it
    blob,            \* input of the extraction taken alone
    extracted        \* its result

vars == <<cards, web, store, pc, run, pagesLeft, blocked, professors_data, idx,
          professor_data, existing, calls, raised, driverQuit, lastOk, faults,
          scraped, prevStore, blob, extracted>>

env == <<cards, web, blob, extracted>>
hist == <<lastOk, faults, scraped, prevStore>>

PNames == CardNames \cup {Unknown}
ListedHrefs(cs) == {cs[i].href : i \in 1..Len(cs)}

Init ==
    /\ cards \in CardLists
    /\ web \in [Hrefs -> Pages]
    /\ \A h \in Hrefs \ ListedHrefs(cards) : web[h] = PAbsent
    /\ store \in StoreInits
    /\ pc = "main"
    /\ run = 1
    /\ pagesLeft = 0
    /\ blocked = 0
    /\ professors_data = <<>>
    /\ idx = 0
    /\ professor_data = NoData
    /\ existing = <<>>
    /\ calls = NoCalls
    /\ raised = ""
    /\ driverQuit = FALSE
    /\ lastOk = [n \in PNames |-> 0]
    /\ faults = FALSE
    /\ scraped = {}
    /\ prevStore = <<>>
    /\ blob = <<>>
    /\ extracted = NotFound

\* ---- test_supabase_connection and the guard at the top of main
Probe(ok) ==
    /\ pc = "main"
    /\ calls' = IF ok THEN Bump(calls, "probe")
                ELSE Bump(Bump(calls, "probe"), "probeErrors")
    /\ pc' = ProbeGate(ok)
    /\ faults' = (faults \/ ~ok)
    /\ UNCHANGED <<env, store, run, pagesLeft, blocked, professors_data, idx,
                   professor_data, existing, raised, driverQuit, lastOk,
                   scraped, prevStore>>

ProbeOk == Probe(TRUE)
ProbeFail == Probe(FALSE)

\* ---- scrape_professor_links
ScrapeOpen ==
    /\ pc = "scrape"
    /\ calls' = Bump(calls, "scrape")
    /\ \E n \in 0..MaxPages : pagesLeft' = n
    /\ blocked' = 0
    /\ pc' = "show_more"
    /\ UNCHANGED <<env, hist, store, run, professors_data, idx, professor_data,
                   existing, raised, driverQuit>>

\* driver.get does not finish within the page load timeout
ScrapeTimeout ==
    /\ pc = "scrape"
    /\ calls' = Bump(calls, "scrape")
    /\ raised' = "TimeoutException"
    /\ pc' = "crashed"
    /\ UNCHANGED <<env, hist, store, run, pagesLeft, blocked, professors_data,
                   idx, professor_data, existing, driverQuit>>

ShowMoreClick ==
    /\ pc = "show_more"
    /\ pagesLeft > 0
    /\ pagesLeft' = pagesLeft - 1
    /\ blocked' = 0
    /\ UNCHANGED <<env, hist, store, pc, run, professors_data, idx,
                   professor_data, existing, calls, raised, driverQuit>>

ShowMoreBlocked ==
    /\ pc = "show_more"
    /\ pagesLeft > 0
    /\ blocked' = IF blocked < MaxBlocked THEN blocked + 1 ELSE blocked
    /\ UNCHANGED <<env, hist, store, pc, run, pagesLeft, professors_data, idx,
                   professor_data, existing, calls, raised, driverQuit>>

ShowMoreAbsent ==
    /\ pc = "show_more"
    /\ pagesLeft = 0
    /\ pc' = AfterNoSuchElement
    /\ UNCHANGED <<env, hist, store, run, pagesLeft, blocked, professors_data,
                   idx, professor_data, existing, calls, raised, driverQuit>>

ScrapeReturn ==
    /\ pc = "parse"
    /\ professors_data' = ParseCards(cards)
    /\ scraped' = scraped \cup {run}
    /\ idx' = 1
    /\ pc' = "loop"
    /\ UNCHANGED <<env, store, run, pagesLeft, blocked, professor_data,
                   existing, calls, raised, driverQuit, lastOk, faults,
                   prevStore>>

\* ---- the for loop of main
\* requests.get(full_link)
HttpGet(link) == web[link[2]]

Professor == professors_data[idx]
Fetched == fetch_rating_distributions(HttpGet(Professor.rmp_link))

FetchRaise ==
    /\ pc = "loop"
    /\ idx <= Len(professors_data)
    /\ Fetched.raised # ""
    /\ calls' = Bump(calls, "fetch")
    /\ raised' = Fetched.raised
    /\ pc' = "crashed"
    /\ UNCHANGED <<env, hist, store, run, pagesLeft, blocked, professors_data,
                   idx, professor_data, existing, driverQuit>>

FetchNoData ==
    /\ pc = "loop"
    /\ idx <= Len(professors_data)
    /\ Fetched.raised = ""
    /\ ~Truthy(Fetched.value)
    /\ calls' = Bump(calls, "fetch")
    /\ idx' = idx + 1
    /\ UNCHANGED <<env, hist, store, pc, run, pagesLeft, blocked,
                   professors_data, professor_data, existing, raised,
                   driverQuit>>

FetchData ==
    /\ pc = "loop"
    /\ idx <= Len(professors_data)
    /\ Fetched.raised = ""
    /\ Truthy(Fetched.value)
    /\ calls' = Bump(calls, "fetch")
    /\ professor_data' = BuildProfessorData(Professor, Fetched.value)
    /\ pc' = "select"
    /\ UNCHANGED <<env, hist, store, run, pagesLeft, blocked, professors_data,
                   idx, existing, raised, driverQuit>>

\* the except clause of the try around the store calls: log, next professor
Caught(call) ==
    /\ calls' = Bump(Bump(calls, call), "storeErrors")
    /\ faults' = TRUE
    /\ pc' = StoreErrorPc
    /\ idx' = idx + 1
    /\ professor_data' = NoData
    /\ existing' = <<>>
    /\ UNCHANGED <<env, store, run, pagesLeft, blocked, professors_data,
                   raised, driverQuit, lastOk, scraped, prevStore>>

\* the end of the try body: "Stored ratings for", next professor
Stored(call) ==
    /\ calls' = Bump(calls, call)
    /\ lastOk' = [lastOk EXCEPT ![professor_data.name] = idx]
    /\ pc' = "loop"
    /\ idx' = idx + 1
    /\ professor_data' = NoData
    /\ existing' = <<>>
    /\ UNCHANGED <<env, run, pagesLeft, blocked, professors_data, raised,
                   driverQuit, faults, scraped, prevStore>>

SelectOk ==
    /\ pc = "select"
    /\ calls' = Bump(calls, "select")
    /\ existing' = SelectRows(store, Professor)
    /\ pc' = "write"
    /\ UNCHANGED <<env, hist, store, run, pagesLeft, blocked, professors_data,
                   idx, professor_data, raised, driverQuit>>

SelectFail ==
    /\ pc = "select"
    /\ Caught("select") /\ UNCHANGED store

UpdateOk ==
    /\ pc = "write"
    /\ ChooseWrite(existing) = "update"
    /\ store' = UpdateRows(store, professor_data)
    /\ Stored("update")

UpdateFail ==
    /\ pc = "write"
    /\ ChooseWrite(existing) = "update"
    /\ Caught("update") /\ UNCHANGED store

InsertOk ==
    /\ pc = "write"
    /\ ChooseWrite(existing) = "insert"
    /\ store' = InsertRow(store, professor_data)
    /\ Stored("insert")

InsertFail ==
    /\ pc = "write"
    /\ ChooseWrite(existing) = "insert"
    /\ Caught("insert") /\ UNCHANGED store

LoopDone ==
    /\ pc = "loop"
    /\ idx > Len(professors_data)
    /\ pc' = "returned"
    /\ UNCHANGED <<env, hist, store, run, pagesLeft, blocked, professors_data,
                   idx, professor_data, existing, calls, raised, driverQuit>>

\* ---- "main(); driver.quit()"
Quit ==
    /\ pc = "returned"
    /\ driverQuit' = TRUE
    /\ pc' = "exited"
    /\ UNCHANGED <<env, hist, store, run, pagesLeft, blocked, professors_data,
                   idx, professor_data, existing, calls, raised>>

Ended == pc \in {"exited", "crashed"}

\* ---- the script is executed again: new client, new browser session
Rerun ==
    /\ Ended
    /\ run < MaxRuns
    /\ run' = run + 1
    /\ prevStore' = store
    /\ pc' = "main"
    /\ pagesLeft' = 0
    /\ blocked' = 0
    /\ professors_data' = <<>>
    /\ idx' = 0
    /\ professor_data' = NoData
    /\ existing' = <<>>
    /\ calls' = NoCalls
    /\ raised' = ""
    /\ driverQuit' = FALSE
    /\ lastOk' = [n \in PNames |-> 0]
    /\ UNCHANGED <<env, store, faults, scraped>>

Next ==
    \/ ProbeOk \/ ProbeFail
    \/ ScrapeOpen \/ ScrapeTimeout
    \/ ShowMoreClick \/ ShowMoreBlocked \/ ShowMoreAbsent
    \/ ScrapeReturn
    \/ FetchRaise \/ FetchNoData \/ FetchData
    \/ SelectOk \/ SelectFail
    \/ UpdateOk \/ UpdateFail
    \/ InsertOk \/ InsertFail
    \/ LoopDone
    \/ Quit
    \/ Rerun

Spec == Init /\ [][Next]_vars

\* The pipeline when the overlay does not block the button for ever: the
\* process always takes its next step, and a click that is possible again
\* and again goes through at some point.  One href is enough for the scraper.
InitFair ==
    /\ Init
    /\ \A i \in 1..Len(cards) : cards[i].href = "/professor/1"
    /\ store = <<>>

FairSpec == InitFair /\ [][Next]_vars /\ WF_vars(Next) /\ SF_vars(ShowMoreClick)

\* ------------------------------------------------------------------------
\* The extraction taken alone: lines 99-104 of fetch_rating_distributions and
\* lines 133-142 of main, applied to every small embedded JSON object.
XValues == {Scalar, Dict("Teacher", 1..Stars), Dict("", 1..Stars)}
             \cup {Dict(Tag, K) : K \in SUBSET (1..Stars)}
Blobs == UNION {[1..n -> XValues] : n \in 0..MaxTop}
InitExtract ==
    /\ blob \in Blobs
    /\ extracted = NotFound
    /\ pc = "extract"
    /\ cards = <<[hasName |-> TRUE, name |-> "a", href |-> "/professor/1"]>>
    /\ web = [h \in Hrefs |-> Page(TRUE, TRUE, TRUE, blob)]
    /\ store = <<>>
    /\ run = 1
    /\ pagesLeft = 0
    /\ blocked = 0
    /\ professors_data = ParseCards(cards)
    /\ idx = 1
    /\ professor_data = NoData
    /\ existing = <<>>
    /\ calls = NoCalls
    /\ raised = ""
    /\ driverQuit = FALSE
    /\ lastOk = [n \in PNames |-> 0]
    /\ faults = FALSE
    /\ scraped = {}
    /\ prevStore = <<>>

Extract ==
    /\ pc = "extract"
    /\ extracted' =
         IF Fetched.raised = "" /\ Truthy(Fetched.value)
         THEN [found |-> TRUE,
               counts |-> BuildProfessorData(Professor, Fetched.value).counts]
         ELSE NotFound
    /\ pc' = "extracted"
    /\ UNCHANGED <<cards, web, blob, hist, store, run, pagesLeft, blocked,
                   professors_data, idx, professor_data, existing, calls,
                   raised, driverQuit>>

NextExtract == Extract

ExtractSpec == InitExtract /\ [][NextExtract]_vars

\* ------------------------------------------------------------------------
\* What the properties refer to, read off the site and the table directly
RowsOf(rows, n) == SelectSeq(rows, LAMBDA r : r.name = n)
NameOf(i) == IF cards[i].hasName THEN cards[i].name ELSE Unknown
PageOf(i) == web[cards[i].href]
TaggedAt(data) == {j \in 1..Len(data) : data[j].isdict /\ data[j].typename = Tag}
FirstTagged(data) == data[CHOOSE j \in TaggedAt(data) : \A m \in TaggedAt(data) : j <= m]
CountOf(obj, k) == IF \E p \in obj.fields : p[1] = k
                   THEN CHOOSE c \in {p[2] : p \in obj.fields} : <<k, c>> \in obj.fields
                   ELSE 0
Parses(page) == page.marker /\ page.assign /\ page.valid
HasData(i) == Parses(PageOf(i)) /\ TaggedAt(PageOf(i).data) # {}
ExpectedRow(i) ==
    [name |-> NameOf(i),
     rmp_link |-> <<Origin, cards[i].href>>,
     counts |-> [k \in 1..Stars |-> CountOf(FirstTagged(PageOf(i).data), k)]]
NoStoreCall == /\ calls'.select = calls.select
               /\ calls'.update = calls.update
               /\ calls'.insert = calls.insert
               /\ calls'.probe = calls.probe
AtProfessor == pc = "loop" /\ idx <= Len(professors_data)
MainReturned == pc \in {"returned", "exited"}

\* C1: once the connectivity probe of a run has failed, that run issues no
\* scrape, no profile fetch and no select-by-name, insert or update: the
\* failed probe is the run's only store call.
C1_ProbeFailureStopsRun ==
    calls.probeErrors > 0 =>
        /\ calls.probe = 1
        /\ calls.scrape = 0 /\ calls.fetch = 0
        /\ calls.select = 0 /\ calls.update = 0 /\ calls.insert = 0
        /\ pc \in {"returned", "exited"}
        /\ raised = ""

C1_Witness ==
    /\ calls.probeErrors = 1 /\ pc = "exited" /\ driverQuit
    /\ Len(cards) = 2 /\ HasData(1)

\* C2: a store call that raises while one professor is processed is caught:
\* the step goes to the next professor with no exception pending, and the
\* process is only ever ended by an exception of the scraper or of the
\* extractor.  How far a run gets does not depend on which store calls fail:
\* when it is over, every professor up to the end of the list (or up to the
\* first page the extractor raises on) has been fetched, and the existence
\* check has been issued for every one of them that has rating data.
BadAt == {i \in 1..Len(cards) : PageOf(i).marker /\ ~Parses(PageOf(i))}
Reach == IF BadAt = {} THEN Len(cards)
         ELSE CHOOSE i \in BadAt : \A m \in BadAt : i <= m
C2_StoreFailureDoesNotAbort ==
    /\ [][calls'.storeErrors > calls.storeErrors =>
             /\ pc' = "loop" /\ idx' = idx + 1 /\ raised' = ""
             /\ professors_data' = professors_data /\ store' = store]_vars
    /\ [](pc = "crashed" =>
             raised \in {"TimeoutException", "AttributeError", "JSONDecodeError"})
    /\ []((MainReturned \/ Ended) /\ run \in scraped =>
             /\ calls.fetch = Reach
             /\ calls.select = Cardinality({i \in 1..Reach : HasData(i)}))

C2_Witness ==
    /\ pc = "exited" /\ Len(cards) = 2
    /\ calls.storeErrors = 1 /\ calls.select = 2
    /\ \E n \in PNames : lastOk[n] = 2

\* C3: when the page of the professor at hand has the marker but the JSON
\* cannot be extracted or parsed, the fetch counts as "no rating data": no
\* exception is pending after it, no store call is made and the loop is at
\* the next professor.
C3_ParseFailureIsNoData ==
    [][AtProfessor /\ PageOf(idx).marker /\ ~Parses(PageOf(idx)) =>
          /\ pc' = "loop" /\ idx' = idx + 1 /\ raised' = ""
          /\ store' = store /\ NoStoreCall]_vars

\* C4: for a professor whose page has no script with the marker the fetch
\* returns None, and the step that fetches it goes straight to the next
\* professor: no select, update or insert is issued and the table is as it
\* was.
C4_MarkerAbsentSkipsUpsert ==
    /\ [](AtProfessor /\ ~PageOf(idx).marker =>
             fetch_rating_distributions(HttpGet(Professor.rmp_link)) = Return(NoneValue))
    /\ [][AtProfessor /\ ~PageOf(idx).marker =>
             /\ pc' = "loop" /\ idx' = idx + 1 /\ raised' = ""
             /\ calls'.fetch = calls.fetch + 1
             /\ store' = store /\ NoStoreCall]_vars

C4_Witness ==
    /\ pc = "loop" /\ idx = 2 /\ Len(cards) = 2
    /\ ~PageOf(1).marker /\ HasData(2)
    /\ calls.fetch = 1 /\ calls.select = 0

\* C5 as stated: when main has returned after scraping, every name that is
\* on the list exactly twice has a record, and it carries the link and the
\* five counts of the second observation.
TwiceAt(i, j) ==
    /\ i < j /\ NameOf(i) = NameOf(j)
    /\ \A m \in 1..Len(cards) : NameOf(m) = NameOf(i) => m \in {i, j}
C5_SecondObservationWins ==
    MainReturned /\ run \in scraped =>
        \A i, j \in 1..Len(cards) :
            TwiceAt(i, j) =>
                /\ HasData(j)
                /\ RowsOf(store, NameOf(j)) # <<>>
                /\ \A m \in 1..Len(RowsOf(store, NameOf(j))) :
                       RowsOf(store, NameOf(j))[m] = ExpectedRow(j)

\* C5 amended: the record stored under a name carries the link and the five
\* counts of the latest observation of that name whose write went through
\* (the second one, when it had rating data and its store calls succeeded).
C5_LastSuccessfulWriteWins ==
    \A n \in PNames :
        lastOk[n] # 0 =>
            /\ lastOk[n] \in 1..Len(cards) /\ NameOf(lastOk[n]) = n
            /\ HasData(lastOk[n])
            /\ RowsOf(store, n) # <<>>
            /\ \A m \in 1..Len(RowsOf(store, n)) :
                   RowsOf(store, n)[m] = ExpectedRow(lastOk[n])

C5_Witness ==
    /\ pc = "exited" /\ Len(cards) = 2 /\ TwiceAt(1, 2)
    /\ lastOk[NameOf(2)] = 2
    /\ calls.insert = 1 /\ calls.update = 1 /\ calls.storeErrors = 0
    /\ HasData(1) /\ ExpectedRow(1).rmp_link # ExpectedRow(2).rmp_link
    /\ ExpectedRow(1).counts # ExpectedRow(2).counts

\* C6 as stated: when a run that scraped the list ends after an earlier run
\* that scraped it too, every name of the list has the rows it had when the
\* earlier run ended: as many, with the same values.
ListedNames == {NameOf(i) : i \in 1..Len(cards)}
SameRowsAsBefore ==
    \A n \in ListedNames : RowsOf(store, n) = RowsOf(prevStore, n)
RanTwice == run >= 2 /\ Ended /\ {run - 1, run} \subseteq scraped
C7_SessionReleased == Ended => driverQuit

\* C8: when the embedded JSON has a top-level object tagged
\* ratingsDistribution, the five counts are those of the first such object
\* in document order, 0 for each of r1..r5 it lacks; when it has none, the
\* result is "no data".
C8_CountsOfFirstTagged ==
    pc = "extracted" =>
        IF TaggedAt(blob) # {}
        THEN /\ extracted.found
             /\ \A k \in 1..Stars :
                    extracted.counts[k] = CountOf(FirstTagged(blob), k)
        ELSE ~extracted.found

C8_Witness ==
    /\ pc = "extracted" /\ extracted.found
    /\ Cardinality(TaggedAt(blob)) = 2
    /\ FirstTagged(blob).fields = Fields({2, 4})
    /\ blob[Len(blob)].fields = Fields(1..Stars)
    /\ extracted.counts[1] = 0 /\ extracted.counts[2] = CountAt(2)

====
